---- MODULE Spec2Model ----
(***************************************************************************)
(* Join-subset enumerator: the join graph with column-aware closure and    *)
(* equivalence classes (join_graph.py), the predicate classifier           *)
(* (predicates.py), the build pipeline of parse_sql (parser.py), the       *)
(* level-ordered DP enumerator (enumerator.py) and the left-deep subquery  *)
(* renderer (sql_generator.py), driven as process_query drives them        *)
(* (main.py).                                                              *)
(*                                                                         *)
(* Strings are modelled by their parts: a qualified column "A.x" is the    *)
(* pair <<"A","x">>, an edge key "A|||B" is the pair <<"A","B">>, and a    *)
(* predicate text is a record of the tokens it is printed from.            *)
(***************************************************************************)
EXTENDS Integers, Sequences, FiniteSets, TLC

VARIABLES
    pc,                  \* position of process_query / parse_sql
    query,               \* the query being processed: FROM list and WHERE conjuncts
    join_details,        \* JoinGraph.join_details: edge key -> list, in insertion order
    equivalence_classes, \* JoinGraph.equivalence_classes: list of sets of columns
    all_predicates,      \* PredicateClassifier.all_predicates
    predicate_tables,    \* PredicateClassifier.predicate_tables (a dict: last write wins)
    buckets,             \* PredicateClassifier.selections / joins / complex
    cursor,              \* loop position of the running phase
    closure_ret,         \* return value of the last compute_transitive_closure
    tables,              \* enumerate_subsets: the sorted relation list
    max_level,           \* enumerate_subsets: min(max_level, num_tables)
    dp_table,            \* PostgreSQLJoinEnumerator.dp_table
    all_plans,           \* PostgreSQLJoinEnumerator.all_plans
    counts,              \* PostgreSQLJoinEnumerator.counts
    sql_out,             \* the text generate_subquery returned for each plan
    rows,                \* process_query: rows
    add_calls,           \* the (text, relation set) pairs given to add_predicate, in call order
    returned,            \* what two get_predicates_for_subset calls on one subset returned
    max_level_arg,       \* enumerate_subsets: the max_level argument as passed
    binding,               \* which list and dict objects self.all_plans and self.counts name
    objects,             \* the contents of the objects the enumerator named before
    held,                \* the EnumerationResults returned so far, as their callers hold them
    args,                \* main: the parsed command line (stop_on_error, verbose)
    tqdm_installed,      \* main: whether the import of tqdm succeeded
    queries,             \* main: the queries read from the input file
    query_id,            \* main: the query_id of the last query taken by the loop
    results,             \* main: results
    errors,              \* main: errors
    csvfile,             \* main: the rows written to the output file, header first
    exit_code            \* main: <<code>> once the process has exited

(* the state of main and the record of the classifier's calls *)
driverVars == <<args, tqdm_installed, queries, query_id, results, errors, csvfile,
                exit_code>>

(* the objects behind the enumerator's attributes and behind its results *)
reuseVars == <<binding, objects, held>>

callVars == <<add_calls, returned, max_level_arg, reuseVars>>

vars == <<pc, query, join_details, equivalence_classes, all_predicates,
          predicate_tables, buckets, cursor, closure_ret, tables,
          max_level, dp_table, all_plans, counts, sql_out, rows, callVars, driverVars>>

-----------------------------------------------------------------------------
(* Bounds of the model and the program's constants *)

MaxConjuncts == 3
MaxFacts == 3
SmallCap == 1

Aliases == {"A", "B", "C"}
AliasOrder == <<"A", "B", "C">>
Columns == {"x", "y"}
ColumnOrder == <<"x", "y">>

max_iterations == 10
DefaultMaxLevel == 20

None == [none |-> TRUE]

(* None where a set of aliases is expected (EnumerationPlan.left / right) *)
NoSet == {"None"}

-----------------------------------------------------------------------------
(* Ordering of names: Python's sorted() on aliases and on predicate texts *)

IndexIn(seq, e) == CHOOSE i \in 1..Len(seq) : seq[i] = e

AliasLess(a, b) == IndexIn(AliasOrder, a) < IndexIn(AliasOrder, b)

ColLess(a, b) == IndexIn(ColumnOrder, a) < IndexIn(ColumnOrder, b)

RECURSIVE SortedList(_)
SortedList(S) ==
    IF S = {} THEN <<>>
    ELSE LET m == CHOOSE a \in S : \A b \in S \ {a} : AliasLess(a, b)
         IN  <<m>> \o SortedList(S \ {m})

Range(seq) == {seq[i] : i \in 1..Len(seq)}

(* The orders in which Python may iterate a set *)
Orderings(S) ==
    {p \in [1..Cardinality(S) -> S] : \A i, j \in 1..Cardinality(S) : i # j => p[i] # p[j]}

-----------------------------------------------------------------------------
(* JoinGraph.add_join *)

EdgeKey(t1, t2) == IF AliasLess(t2, t1) THEN <<t2, t1>> ELSE <<t1, t2>>

(* variant: the relations are put in order, the columns stay as given *)
DetailColumnsAsGiven(t1, t2, t1_col, t2_col, is_original) ==
    [t1 |-> EdgeKey(t1, t2)[1], t1_col |-> t1_col,
     t2 |-> EdgeKey(t1, t2)[2], t2_col |-> t2_col, is_original |-> is_original]

MakeDetail(t1, t2, t1_col, t2_col, is_original) ==
    LET k == EdgeKey(t1, t2)
    IN  [t1 |-> k[1],
         t1_col |-> IF k[1] = t1 THEN t1_col ELSE t2_col,
         t2 |-> k[2],
         t2_col |-> IF k[2] = t2 THEN t2_col ELSE t1_col,
         is_original |-> is_original]

HasKey(jd, k) == \E i \in 1..Len(jd) : jd[i].key = k

KeyIndex(jd, k) == CHOOSE i \in 1..Len(jd) : jd[i].key = k

DetailsOf(jd, k) == IF HasKey(jd, k) THEN jd[KeyIndex(jd, k)].details ELSE <<>>

add_join(jd, t1, t2, t1_col, t2_col, is_original) ==
    LET k == EdgeKey(t1, t2)
        d == MakeDetail(t1, t2, t1_col, t2_col, is_original)
    IN  IF HasKey(jd, k)
        THEN [jd EXCEPT ![KeyIndex(jd, k)].details = Append(@, d)]
        ELSE Append(jd, [key |-> k, details |-> <<d>>])

AllDetails(jd) == UNION {Range(jd[i].details) : i \in 1..Len(jd)}

-----------------------------------------------------------------------------
(* JoinGraph.compute_transitive_closure *)

TableLevelCompose(d1, d2) ==
    IF d1.t2 = d2.t1
    THEN [t1 |-> d1.t1, t1_col |-> d1.t1_col, t2 |-> d2.t2, t2_col |-> d2.t2_col]
    ELSE IF d1.t2 = d2.t2
    THEN [t1 |-> d1.t1, t1_col |-> d1.t1_col, t2 |-> d2.t1, t2_col |-> d2.t1_col]
    ELSE IF d1.t1 = d2.t1
    THEN [t1 |-> d1.t2, t1_col |-> d1.t2_col, t2 |-> d2.t2, t2_col |-> d2.t2_col]
    ELSE IF d1.t1 = d2.t2
    THEN [t1 |-> d1.t2, t1_col |-> d1.t2_col, t2 |-> d2.t1, t2_col |-> d2.t1_col]
    ELSE None

(* variant: only the first case, the end of d1 meeting the start of d2 *)
ComposeEndToStart(d1, d2) ==
    IF d1.t2 = d2.t1 /\ d1.t2_col = d2.t1_col
    THEN [t1 |-> d1.t1, t1_col |-> d1.t1_col, t2 |-> d2.t2, t2_col |-> d2.t2_col]
    ELSE None

try_form_transitive_join(d1, d2) ==
    IF d1.t2 = d2.t1 /\ d1.t2_col = d2.t1_col
    THEN [t1 |-> d1.t1, t1_col |-> d1.t1_col, t2 |-> d2.t2, t2_col |-> d2.t2_col]
    ELSE IF d1.t2 = d2.t2 /\ d1.t2_col = d2.t2_col
    THEN [t1 |-> d1.t1, t1_col |-> d1.t1_col, t2 |-> d2.t1, t2_col |-> d2.t1_col]
    ELSE IF d1.t1 = d2.t1 /\ d1.t1_col = d2.t1_col
    THEN [t1 |-> d1.t2, t1_col |-> d1.t2_col, t2 |-> d2.t2, t2_col |-> d2.t2_col]
    ELSE IF d1.t1 = d2.t2 /\ d1.t1_col = d2.t2_col
    THEN [t1 |-> d1.t2, t1_col |-> d1.t2_col, t2 |-> d2.t1, t2_col |-> d2.t1_col]
    ELSE None

join_exists(jd, tr) ==
    LET existing == DetailsOf(jd, EdgeKey(tr.t1, tr.t2))
    IN  \E i \in 1..Len(existing) :
            LET detail == existing[i]
            IN  \/ /\ detail.t1 = tr.t1 /\ detail.t1_col = tr.t1_col
                   /\ detail.t2 = tr.t2 /\ detail.t2_col = tr.t2_col
                \/ /\ detail.t1 = tr.t2 /\ detail.t1_col = tr.t2_col
                   /\ detail.t2 = tr.t1 /\ detail.t2_col = tr.t1_col

(* One pass of the closure loop.  n is the number of edges in the snapshot  *)
(* current_edges; the detail lists are the live lists, so a detail appended *)
(* to an edge of the snapshot is seen by the iterations still to come.      *)
RECURSIVE ClosurePass(_, _, _, _, _, _, _)
ClosurePass(jd, n, i, j, a, b, added) ==
    IF i > n THEN [jd |-> jd, added |-> added]
    ELSE IF j > n THEN ClosurePass(jd, n, i + 1, 1, 1, 1, added)
    ELSE IF i = j THEN ClosurePass(jd, n, i, j + 1, 1, 1, added)
    ELSE IF a > Len(jd[i].details) THEN ClosurePass(jd, n, i, j + 1, 1, 1, added)
    ELSE IF b > Len(jd[j].details) THEN ClosurePass(jd, n, i, j, a + 1, 1, added)
    ELSE LET tr == try_form_transitive_join(jd[i].details[a], jd[j].details[b])
         IN  IF tr # None /\ tr.t1 # tr.t2 /\ ~join_exists(jd, tr)
             THEN ClosurePass(add_join(jd, tr.t1, tr.t2, tr.t1_col, tr.t2_col, FALSE),
                              n, i, j, a, b + 1, added + 1)
             ELSE ClosurePass(jd, n, i, j, a, b + 1, added)

(* variant: the value returned is what the last productive pass added *)
RECURSIVE ClosureLoopLastPass(_, _, _, _)
ClosureLoopLastPass(jd, iteration, limit, added_count) ==
    IF iteration >= limit THEN [jd |-> jd, added |-> added_count, passes |-> iteration]
    ELSE LET p == ClosurePass(jd, Len(jd), 1, 1, 1, 1, 0)
         IN  IF p.added = 0
             THEN [jd |-> jd, added |-> added_count, passes |-> iteration + 1]
             ELSE ClosureLoopLastPass(p.jd, iteration + 1, limit, p.added)

(* passes is the number of passes of the for loop that were started *)
RECURSIVE ClosureLoop(_, _, _, _)
ClosureLoop(jd, iteration, limit, added_count) ==
    IF iteration >= limit THEN [jd |-> jd, added |-> added_count, passes |-> iteration]
    ELSE LET p == ClosurePass(jd, Len(jd), 1, 1, 1, 1, 0)
         IN  IF p.added = 0
             THEN [jd |-> jd, added |-> added_count, passes |-> iteration + 1]
             ELSE ClosureLoop(p.jd, iteration + 1, limit, added_count + p.added)

SinglePassClosure(jd) == ClosureLoop(jd, 0, 1, 0)

compute_transitive_closure(jd) == ClosureLoop(jd, 0, max_iterations, 0)

-----------------------------------------------------------------------------
(* JoinGraph.build_equivalence_classes: union-find keyed by qualified column *)

EmptyUF == [keys |-> <<>>, parent |-> <<>>, rank |-> <<>>]

Touch(uf, x) ==
    IF x \in Range(uf.keys) THEN uf
    ELSE [keys |-> Append(uf.keys, x),
          parent |-> Append(uf.parent, x),
          rank |-> Append(uf.rank, 0)]

ParentOf(uf, x) == uf.parent[IndexIn(uf.keys, x)]

RankOf(uf, x) == uf.rank[IndexIn(uf.keys, x)]

SetParent(uf, x, p) == [uf EXCEPT !.parent[IndexIn(uf.keys, x)] = p]

RECURSIVE find(_, _)
find(uf0, x) ==
    LET uf == Touch(uf0, x)
    IN  IF ParentOf(uf, x) # x
        THEN LET r == find(uf, ParentOf(uf, x))
             IN  [uf |-> SetParent(r.uf, x, r.root), root |-> r.root]
        ELSE [uf |-> uf, root |-> x]

(* variant: the two roots are found but never linked *)
find_both(uf, x, y) == find(find(uf, x).uf, y).uf

union(uf, x, y) ==
    LET fx == find(uf, x)
        fy == find(fx.uf, y)
        u == fy.uf
        root_x == fx.root
        root_y == fy.root
    IN  IF root_x = root_y THEN u
        ELSE IF RankOf(u, root_x) < RankOf(u, root_y) THEN SetParent(u, root_x, root_y)
        ELSE IF RankOf(u, root_x) > RankOf(u, root_y) THEN SetParent(u, root_y, root_x)
        ELSE [SetParent(u, root_y, root_x)
                 EXCEPT !.rank[IndexIn(u.keys, root_x)] = @ + 1]

TC1(detail) == <<detail.t1, detail.t1_col>>
TC2(detail) == <<detail.t2, detail.t2_col>>

RECURSIVE UnionDetails(_, _, _, _)
UnionDetails(uf, jd, i, a) ==
    IF i > Len(jd) THEN uf
    ELSE IF a > Len(jd[i].details) THEN UnionDetails(uf, jd, i + 1, 1)
    ELSE UnionDetails(union(uf, TC1(jd[i].details[a]), TC2(jd[i].details[a])), jd, i, a + 1)

(* ec_groups: root -> set, kept as two parallel lists in insertion order *)
RECURSIVE GroupByRoot(_, _, _, _)
GroupByRoot(uf, k, roots, groups) ==
    IF k > Len(uf.keys) THEN groups
    ELSE LET r == find(uf, uf.keys[k])
         IN  IF r.root \in Range(roots)
             THEN GroupByRoot(r.uf, k + 1, roots,
                              [groups EXCEPT ![IndexIn(roots, r.root)] = @ \cup {uf.keys[k]}])
             ELSE GroupByRoot(r.uf, k + 1, Append(roots, r.root),
                              Append(groups, {uf.keys[k]}))

build_equivalence_classes(jd) ==
    GroupByRoot(UnionDetails(EmptyUF, jd, 1, 1), 1, <<>>, <<>>)

(* the value build_equivalence_classes returns *)
number_of_classes(jd) == Len(build_equivalence_classes(jd))

-----------------------------------------------------------------------------
(* Connectivity queries of JoinGraph *)

(* variant: a class holding a column of either relation is enough *)
in_ec_of_either(ecs, t1, t2) ==
    \E i \in 1..Len(ecs) :
        \/ \E tc \in ecs[i] : tc[1] = t1
        \/ \E tc \in ecs[i] : tc[1] = t2

are_in_same_ec(ecs, t1, t2) ==
    \E i \in 1..Len(ecs) :
        /\ \E tc \in ecs[i] : tc[1] = t1
        /\ \E tc \in ecs[i] : tc[1] = t2

(* The inner for-loop of one BFS step: order is the iteration order of subset *)
RECURSIVE VisitOthers(_, _, _, _, _, _)
VisitOthers(ecs, order, k, current, visited, queue) ==
    IF k > Len(order) THEN [visited |-> visited, queue |-> queue]
    ELSE IF order[k] \notin visited /\ are_in_same_ec(ecs, current, order[k])
    THEN VisitOthers(ecs, order, k + 1, current, visited \cup {order[k]},
                     Append(queue, order[k]))
    ELSE VisitOthers(ecs, order, k + 1, current, visited, queue)

RECURSIVE Bfs(_, _, _, _)
Bfs(ecs, order, visited, queue) ==
    IF queue = <<>> THEN visited
    ELSE LET v == VisitOthers(ecs, order, 1, Head(queue), visited, Tail(queue))
         IN  Bfs(ecs, order, v.visited, v.queue)

(* variant: no queue, only the relations tied to the start are visited *)
connected_to_start(ecs, order) ==
    IF Len(order) <= 1 THEN TRUE
    ELSE \A k \in 2..Len(order) : are_in_same_ec(ecs, order[1], order[k])

(* is_connected with the set iterated in the given order (start = first) *)
is_connected(ecs, order) ==
    IF Len(order) <= 1 THEN TRUE
    ELSE Cardinality(Bfs(ecs, order, {order[1]}, <<order[1]>>)) = Len(order)

(* variant: every relation of left has to share a class with every one of right *)
joins_every_pair(ecs, left, right) ==
    \A l \in left : \A r \in right : are_in_same_ec(ecs, l, r)

can_join(ecs, left, right) ==
    \E l \in left : \E r \in right : are_in_same_ec(ecs, l, r)

-----------------------------------------------------------------------------
(* Predicate texts, as the parser prints the conjuncts of WHERE             *)
(*   kind "join":  t1.c1 = t2.c2     (two qualified columns, t1 # t2)       *)
(*   kind "sel":   t1.c1 <op> <val>  (one relation)                         *)
(*   kind "open":  a conjunct naming no qualified column                    *)
(*   kind "multi": a conjunct over columns of A, B and C                    *)

Text(kind, t1, c1, op, t2, c2, val) ==
    [kind |-> kind, t1 |-> t1, c1 |-> c1, op |-> op, t2 |-> t2, c2 |-> c2, val |-> val]

(* A constant as written: body, in quotes or not; tail is what a quoted     *)
(* literal goes on with after " AND " ('1 AND 2' has body "1", tail "2");   *)
(* more are the further values of an IN list                                *)
Constant(quoted, body, tail, more) ==
    [quoted |-> quoted, body |-> body, tail |-> tail, more |-> more]

NoValue == Constant(FALSE, "", "", <<>>)

Value(quoted, body) == Constant(quoted, body, "", <<>>)

JoinText(t1, c1, t2, c2) == Text("join", t1, c1, "=", t2, c2, NoValue)

(* the equalities of two columns of distinct relations, written smaller     *)
(* alias first; B.x = A.x and B.y = A.x are written larger alias first      *)
WrittenPairs == {<<"A", "B">>, <<"A", "C">>, <<"B", "C">>}

JoinConjuncts ==
    {JoinText(pr[1], c1, pr[2], c2) : pr \in WrittenPairs, c1 \in Columns, c2 \in Columns}
    \cup {JoinText("B", c1, "A", "x") : c1 \in Columns}

(* A.x = 1, B.x = 1, C.x = '1' *)
SelConjuncts ==
    {Text("sel", t, "x", "=", "", "", Value(t = "C", "1")) : t \in Aliases}

Sel(t, c, op, val) == Text("sel", t, c, op, "", "", val)

(* Selections of one relation for the build pipeline:                       *)
(*   A.x = 1   A.x = '1'   B.x = 1   C.x = '1'   B.x IN (1)                 *)
(*   B.x = 2   C.y = 1   B.x = '1 AND 2'                                    *)
(*   C.x IN (1, 2)   C.x > 1   C.x LIKE '1'   C.x IS NULL                   *)
FactConjuncts ==
    {Sel("A", "x", "=", Value(FALSE, "1")), Sel("A", "x", "=", Value(TRUE, "1")),
     Sel("B", "x", "=", Value(FALSE, "1")), Sel("C", "x", "=", Value(TRUE, "1")),
     Sel("B", "x", "IN", Value(FALSE, "1")),
     Sel("B", "x", "=", Value(FALSE, "2")), Sel("C", "y", "=", Value(FALSE, "1")),
     Sel("B", "x", "=", Constant(TRUE, "1", "2", <<>>)),
     Sel("C", "x", "IN", Constant(FALSE, "1", "", <<"2">>)),
     Sel("C", "x", ">", Value(FALSE, "1")), Sel("C", "x", "LIKE", Value(TRUE, "1")),
     Sel("C", "x", "IS NULL", NoValue)}

(* the join conditions of the build pipeline's queries *)
BuildJoinConjuncts ==
    {JoinText("A", "x", "B", "x"), JoinText("B", "x", "C", "x"),
     JoinText("B", "y", "A", "x"), JoinText("A", "y", "C", "y")}

OtherConjuncts ==
    {Text("open", "", "", "", "", "", NoValue), Text("multi", "", "", "", "", "", NoValue)}

Conjuncts == JoinConjuncts \cup SelConjuncts \cup OtherConjuncts

(* _extract_predicates_from_where: the relations of the qualified columns *)
TablesOfText(p) ==
    IF p.kind = "join" THEN {p.t1, p.t2}
    ELSE IF p.kind = "sel" THEN {p.t1}
    ELSE IF p.kind = "multi" THEN Aliases
    ELSE {}

(* _extract_join_condition_from_eq: an equality of two qualified columns of *)
(* distinct relations                                                       *)
IsJoinCondition(p) == p.kind = "join" /\ p.t1 # p.t2

-----------------------------------------------------------------------------
(* PredicateClassifier *)

BucketOf(n) == IF n = 1 THEN "selections" ELSE IF n = 2 THEN "joins" ELSE "complex"

get_predicates_for_subset(preds, ptables, subset) ==
    LET In(bucket) ==
            LET Keep(p) == /\ ptables[p] \subseteq subset
                           /\ BucketOf(Cardinality(ptables[p])) = bucket
            IN  SelectSeq(preds, Keep)
    IN  [selections |-> In("selections"), joins |-> In("joins"), complex |-> In("complex")]

-----------------------------------------------------------------------------
(* parser._detect_constant_equality_joins *)

(* a quote at either end of the captured text is stripped *)
normalize_value(raw) == raw.body

(* group 3 of the first pattern: the text after "=" up to the first " AND " *)
(* or " OR ", else to the end; a quoted literal with " AND " inside is cut  *)
(* there and keeps its opening quote only                                   *)
CapturedAfterEq(val) == Constant(val.quoted, val.body, "", <<>>)

extract_single_constant_value(p) ==
    IF p.kind = "sel" /\ p.op = "="
    THEN [table |-> p.t1, column |-> p.c1,
          value |-> normalize_value(CapturedAfterEq(p.val))]
    ELSE IF p.kind = "sel" /\ p.op = "IN" /\ Len(p.val.more) + 1 = 1
    THEN [table |-> p.t1, column |-> p.c1, value |-> normalize_value(p.val)]
    ELSE None

(* every selection of every table, in FROM order *)
RECURSIVE ConstantValues(_, _, _, _)
ConstantValues(preds, ptables, from, k) ==
    IF k > Len(from) THEN <<>>
    ELSE LET sels == get_predicates_for_subset(preds, ptables, {from[k]}).selections
             Keep(p) == extract_single_constant_value(p) # None
             found == SelectSeq(sels, Keep)
         IN  [i \in 1..Len(found) |-> extract_single_constant_value(found[i])]
             \o ConstantValues(preds, ptables, from, k + 1)

GroupKey(cv) == <<cv.column, cv.value>>

(* the keys of constant_groups in insertion order *)
RECURSIVE GroupKeys(_, _, _)
GroupKeys(cvs, i, keys) ==
    IF i > Len(cvs) THEN keys
    ELSE GroupKeys(cvs, i + 1,
                   IF GroupKey(cvs[i]) \in Range(keys) THEN keys
                   ELSE Append(keys, GroupKey(cvs[i])))

RECURSIVE PairsOf(_, _, _)
PairsOf(group, i, j) ==
    IF i > Len(group) THEN <<>>
    ELSE IF j > Len(group) THEN PairsOf(group, i + 1, i + 2)
    ELSE <<[t1 |-> group[i].table, t2 |-> group[j].table, column |-> group[i].column]>>
         \o PairsOf(group, i, j + 1)

RECURSIVE JoinsOfGroups(_, _, _)
JoinsOfGroups(cvs, keys, g) ==
    IF g > Len(keys) THEN <<>>
    ELSE LET Keep(cv) == GroupKey(cv) = keys[g]
             group == SelectSeq(cvs, Keep)
         IN  (IF Len(group) >= 2 THEN PairsOf(group, 1, 2) ELSE <<>>)
             \o JoinsOfGroups(cvs, keys, g + 1)

detect_constant_equality_joins(preds, ptables, from) ==
    LET cvs == ConstantValues(preds, ptables, from, 1)
    IN  JoinsOfGroups(cvs, GroupKeys(cvs, 1, <<>>), 1)

(* variant: the constant-equality joins are stored as asserted *)
RECURSIVE AddConstantJoinsAsserted(_, _, _)
AddConstantJoinsAsserted(jd, cjs, i) ==
    IF i > Len(cjs) THEN jd
    ELSE AddConstantJoinsAsserted(add_join(jd, cjs[i].t1, cjs[i].t2, cjs[i].column,
                                           cjs[i].column, TRUE), cjs, i + 1)

RECURSIVE AddConstantJoins(_, _, _)
AddConstantJoins(jd, cjs, i) ==
    IF i > Len(cjs) THEN jd
    ELSE AddConstantJoins(add_join(jd, cjs[i].t1, cjs[i].t2, cjs[i].column,
                                   cjs[i].column, FALSE), cjs, i + 1)

-----------------------------------------------------------------------------
(* PostgreSQLJoinEnumerator *)

(* sorted(tables) by insertion *)
RECURSIVE InsertSorted(_, _)
InsertSorted(seq, a) ==
    IF seq = <<>> THEN <<a>>
    ELSE IF AliasLess(a, Head(seq)) THEN <<a>> \o seq
    ELSE <<Head(seq)>> \o InsertSorted(Tail(seq), a)

(* variant: the list as it was given *)
AsGiven(seq) == seq

RECURSIVE sorted(_)
sorted(seq) ==
    IF seq = <<>> THEN <<>> ELSE InsertSorted(sorted(Tail(seq)), Head(seq))

(* variant: the aliases in the order the set was iterated *)
AsIterated(iterated) == iterated

(* utils.format_subset: the aliases of the subset, sorted (joined with ", "  *)
(* between braces); iterated is the order in which the set gives them       *)
format_subset(iterated) == sorted(iterated)

(* variant: the number of relations, whatever the cap *)
SecondOf(a, b) == b

Min(a, b) == IF a < b THEN a ELSE b

(* itertools.combinations(seq, k): the k-tuples in lexicographic order of position *)
RECURSIVE combinations(_, _)
combinations(seq, k) ==
    IF k = 0 THEN << <<>> >>
    ELSE IF Len(seq) < k THEN <<>>
    ELSE LET with == combinations(Tail(seq), k - 1)
         IN  [i \in 1..Len(with) |-> <<Head(seq)>> \o with[i]]
             \o combinations(Tail(seq), k)

(* variant: the candidates of a level followed by those one relation smaller *)
CandidatesWithSmaller(tables_, level) ==
    combinations(tables_, level) \o combinations(tables_, level - 1)

(* the candidates _enumerate_level walks through, in order *)
LevelCandidates(tables_, level) == combinations(tables_, level)

(* variant: the key names only the smallest relation of the subset *)
KeyOfSmallest(subset) == SubSeq(SortedList(subset), 1, 1)

canonical_key(subset) == SortedList(subset)

(* variant: the lefts of each size taken over the relations in descending order *)
RECURSIVE SplitsDescending(_, _)
SplitsDescending(subset, left_size) ==
    IF left_size >= Cardinality(subset) THEN <<>>
    ELSE LET ascending == SortedList(subset)
             descending == [i \in 1..Len(ascending) |-> ascending[Len(ascending) + 1 - i]]
             lefts == combinations(descending, left_size)
         IN  [i \in 1..Len(lefts) |->
                 [left |-> Range(lefts[i]), right |-> subset \ Range(lefts[i])]]
             \o SplitsDescending(subset, left_size + 1)

(* the (left, right) splits in the order _find_valid_decomposition tries them *)
RECURSIVE Splits(_, _)
Splits(subset, left_size) ==
    IF left_size >= Cardinality(subset) THEN <<>>
    ELSE LET lefts == combinations(SortedList(subset), left_size)
         IN  [i \in 1..Len(lefts) |->
                 [left |-> Range(lefts[i]), right |-> subset \ Range(lefts[i])]]
             \o Splits(subset, left_size + 1)

RECURSIVE FirstValid(_, _, _, _)
FirstValid(ecs, dp, splits, i) ==
    IF i > Len(splits) THEN None
    ELSE IF canonical_key(splits[i].left) \notin dp
            \/ canonical_key(splits[i].right) \notin dp
    THEN FirstValid(ecs, dp, splits, i + 1)
    ELSE IF can_join(ecs, splits[i].left, splits[i].right) THEN splits[i]
    ELSE FirstValid(ecs, dp, splits, i + 1)

(* variant: the first split can_join accepts, its halves looked up nowhere *)
RECURSIVE FirstJoinable(_, _, _)
FirstJoinable(ecs, splits, i) ==
    IF i > Len(splits) THEN None
    ELSE IF can_join(ecs, splits[i].left, splits[i].right) THEN splits[i]
    ELSE FirstJoinable(ecs, splits, i + 1)

DecompositionWithoutLookup(ecs, dp, subset) ==
    FirstJoinable(ecs, Splits(subset, 1), 1)

(* variant: only the first split is tried *)
DecompositionFirstSplitOnly(ecs, dp, subset) ==
    LET splits == Splits(subset, 1)
    IN  IF splits = <<>> THEN None
        ELSE FirstValid(ecs, dp, <<splits[1]>>, 1)

find_valid_decomposition(ecs, dp, subset) ==
    FirstValid(ecs, dp, Splits(subset, 1), 1)

Plan(subset, left, right) == [subset |-> subset, left |-> left, right |-> right]

-----------------------------------------------------------------------------
(* SubqueryGenerator *)

DetailText(detail) == JoinText(detail.t1, detail.t1_col, detail.t2, detail.t2_col)

(* string order of two texts "t1.c1 = t2.c2" *)
TextLess(p, q) ==
    \/ AliasLess(p.t1, q.t1)
    \/ p.t1 = q.t1 /\ ColLess(p.c1, q.c1)
    \/ p.t1 = q.t1 /\ p.c1 = q.c1 /\ AliasLess(p.t2, q.t2)
    \/ p.t1 = q.t1 /\ p.c1 = q.c1 /\ p.t2 = q.t2 /\ ColLess(p.c2, q.c2)

(* the sort key (not is_original, predicate) *)
PredBefore(p, q) ==
    \/ p.is_original /\ ~q.is_original
    \/ p.is_original = q.is_original /\ TextLess(p.predicate, q.predicate)

RECURSIVE InsertPred(_, _)
InsertPred(seq, p) ==
    IF seq = <<>> THEN <<p>>
    ELSE IF PredBefore(p, Head(seq)) THEN <<p>> \o seq
    ELSE <<Head(seq)>> \o InsertPred(Tail(seq), p)

RECURSIVE SortPreds(_)
SortPreds(seq) ==
    IF seq = <<>> THEN <<>> ELSE InsertPred(SortPreds(Tail(seq)), Head(seq))

(* _find_join_predicates([l], [r]) *)
find_join_predicates(jd, l, r) ==
    LET details == DetailsOf(jd, EdgeKey(l, r))
    IN  SortPreds([i \in 1..Len(details) |->
                      [predicate |-> DetailText(details[i]),
                       is_original |-> details[i].is_original]])

FirstOriginal(preds) ==
    IF \E i \in 1..Len(preds) : preds[i].is_original
    THEN preds[CHOOSE i \in 1..Len(preds) :
                   /\ preds[i].is_original
                   /\ \A j \in 1..(i - 1) : ~preds[j].is_original]
    ELSE None

(* first loop of _find_next_table_for_join_tree; added is the iteration order *)
RECURSIVE ScanOriginal(_, _, _, _, _)
ScanOriginal(jd, added, remaining, t, a) ==
    IF t > Len(remaining) THEN None
    ELSE IF a > Len(added) THEN ScanOriginal(jd, added, remaining, t + 1, 1)
    ELSE LET pred == FirstOriginal(find_join_predicates(jd, added[a], remaining[t]))
         IN  IF pred # None THEN [table |-> remaining[t], join_pred |-> pred]
             ELSE ScanOriginal(jd, added, remaining, t, a + 1)

(* second loop: any join *)
RECURSIVE ScanAny(_, _, _, _, _)
ScanAny(jd, added, remaining, t, a) ==
    IF t > Len(remaining) THEN None
    ELSE IF a > Len(added) THEN ScanAny(jd, added, remaining, t + 1, 1)
    ELSE LET preds == find_join_predicates(jd, added[a], remaining[t])
         IN  IF preds # <<>> THEN [table |-> remaining[t], join_pred |-> preds[1]]
             ELSE ScanAny(jd, added, remaining, t, a + 1)

(* variant: only the scan for asserted details, no second scan *)
AssertedScanOnly(jd, added, remaining) ==
    ScanOriginal(jd, added, SortedList(remaining), 1, 1)

(* variant: the first detail found, asserted or not *)
AnyFirst(jd, added, remaining) == ScanAny(jd, added, SortedList(remaining), 1, 1)

find_next_table_for_join_tree(jd, added, remaining) ==
    LET orig == ScanOriginal(jd, added, SortedList(remaining), 1, 1)
    IN  IF orig # None THEN orig ELSE ScanAny(jd, added, SortedList(remaining), 1, 1)

(* variant: the two-relation predicates are all taken as consumed by ON *)
WhereWithoutJoins(preds, ptables, subset, used) ==
    LET ps == get_predicates_for_subset(preds, ptables, subset)
    IN  ps.selections \o ps.complex

(* variant: the two-relation predicates are all kept, used after ON or not *)
WhereWithAllJoins(preds, ptables, subset, used) ==
    LET ps == get_predicates_for_subset(preds, ptables, subset)
    IN  ps.selections \o ps.joins \o ps.complex

build_where_clause(preds, ptables, subset, used) ==
    LET ps == get_predicates_for_subset(preds, ptables, subset)
        Unused(p) == p \notin used
    IN  ps.selections \o SelectSeq(ps.joins, Unused) \o ps.complex

(* the JOIN clauses the loop of _generate_join_query can build, one result  *)
(* for every order in which the set added_tables may be iterated            *)
RECURSIVE JoinClauses(_, _, _, _)
JoinClauses(jd, added, remaining, clauses) ==
    IF remaining = {} THEN {clauses}
    ELSE UNION {
        LET next_info == find_next_table_for_join_tree(jd, order, remaining)
        IN  IF next_info = None THEN {clauses}
            ELSE JoinClauses(jd, added \cup {next_info.table},
                             remaining \ {next_info.table},
                             Append(clauses, [table |-> next_info.table,
                                              on |-> next_info.join_pred.predicate,
                                              is_original |-> next_info.join_pred.is_original]))
        : order \in Orderings(added) }

generate_join_query(jd, preds, ptables, subset) ==
    LET subset_list == SortedList(subset)
    IN  {[from |-> subset_list[1],
          joins |-> clauses,
          where |-> build_where_clause(preds, ptables, subset,
                                       {clauses[i].on : i \in 1..Len(clauses)})]
         : clauses \in JoinClauses(jd, {subset_list[1]}, subset \ {subset_list[1]}, <<>>)}

generate_base_table_query(preds, ptables, table) ==
    [from |-> table,
     joins |-> <<>>,
     where |-> get_predicates_for_subset(preds, ptables, {table}).selections]

generate_subquery(jd, preds, ptables, subset) ==
    IF Cardinality(subset) = 1
    THEN {generate_base_table_query(preds, ptables, CHOOSE t \in subset : TRUE)}
    ELSE generate_join_query(jd, preds, ptables, subset)

-----------------------------------------------------------------------------
(* The queries: FROM a set of relations, WHERE a conjunction of at most     *)
(* MaxConjuncts distinct conjuncts over relations of FROM                   *)

RECURSIVE SubsetsUpTo(_, _)
SubsetsUpTo(S, k) ==
    IF k = 0 THEN {{}}
    ELSE LET smaller == SubsetsUpTo(S, k - 1)
         IN  smaller \cup {s \cup {e} : s \in smaller, e \in S}

RECURSIVE ListOf(_)
ListOf(S) ==
    IF S = {} THEN <<>>
    ELSE LET e == CHOOSE x \in S : TRUE IN <<e>> \o ListOf(S \ {e})

Mentioned(conjs) == UNION {TablesOfText(p) : p \in conjs}

Queries ==
    {[from |-> T, where |-> ListOf(W)] :
        W \in SubsetsUpTo(Conjuncts, MaxConjuncts),
        T \in {T \in SUBSET Aliases : T # {}}}

ValidQuery(q) == Mentioned(Range(q.where)) \subseteq q.from

(* the queries of the build pipeline: at most MaxFacts conjuncts, taken     *)
(* from the selections of FactConjuncts and a few join conditions           *)
BuildQueries ==
    {[from |-> T, where |-> ListOf(W)] :
        W \in SubsetsUpTo(FactConjuncts \cup BuildJoinConjuncts, MaxFacts),
        T \in {T \in SUBSET Aliases : T # {}}}

Caps == (0..SmallCap) \cup {DefaultMaxLevel}

(* min(args.max_level, 20), the cap process_query passes on *)
PassedMaxLevel(cap) == IF cap < DefaultMaxLevel THEN cap ELSE DefaultMaxLevel

JoinConditions(q) == SelectSeq(q.where, IsJoinCondition)

-----------------------------------------------------------------------------
(* parse_sql *)

(* nothing has been asked of a classifier on its own *)
NoCalls ==
    /\ add_calls = <<>> /\ returned = None /\ max_level_arg = 0
    /\ binding = 1 /\ objects = <<>> /\ held = <<>>

(* main is not running: process_query is looked at on its own *)
MainIdle ==
    /\ args = [stop_on_error |-> FALSE, verbose |-> FALSE]
    /\ tqdm_installed = TRUE
    /\ queries = <<>>
    /\ query_id = 0
    /\ results = <<>>
    /\ errors = <<>>
    /\ csvfile = <<>>
    /\ exit_code = <<>>

AfterJoins(q) == IF q.where # <<>> THEN "add_predicates" ELSE "classify"

Init ==
    /\ query \in {q \in Queries : ValidQuery(q)}
    /\ pc = IF JoinConditions(query) # <<>> THEN "add_joins" ELSE AfterJoins(query)
    /\ cursor = 1
    /\ join_details = <<>>
    /\ equivalence_classes = <<>>
    /\ all_predicates = <<>>
    /\ predicate_tables = <<>>
    /\ buckets = [selections |-> <<>>, joins |-> <<>>, complex |-> <<>>]
    /\ closure_ret = 0
    /\ tables = <<>>
    /\ max_level = 0
    /\ dp_table = {}
    /\ all_plans = <<>>
    /\ counts = <<>>
    /\ sql_out = <<>>
    /\ rows = <<>>
    /\ NoCalls
    /\ MainIdle

(* join_graph.add_join(..., is_original=True) for the next join condition *)
AddAssertedJoin ==
    /\ pc = "add_joins"
    /\ LET jcs == JoinConditions(query)
           jc == jcs[cursor]
       IN  /\ join_details' = add_join(join_details, jc.t1, jc.t2, jc.c1, jc.c2, TRUE)
           /\ IF cursor < Len(jcs)
              THEN cursor' = cursor + 1 /\ pc' = pc
              ELSE cursor' = 1 /\ pc' = AfterJoins(query)
    /\ UNCHANGED <<query, equivalence_classes, all_predicates, predicate_tables, buckets,
                   closure_ret, tables, max_level, dp_table, all_plans, counts, sql_out>>
    /\ UNCHANGED <<rows, callVars, driverVars>>

(* classifier.add_predicate for the next conjunct of WHERE *)
AddPredicate ==
    /\ pc = "add_predicates"
    /\ LET p == query.where[cursor]
       IN  /\ all_predicates' = Append(all_predicates, p)
           /\ predicate_tables' =
                  [q \in DOMAIN predicate_tables \cup {p} |->
                      IF q = p THEN TablesOfText(p) ELSE predicate_tables[q]]
    /\ IF cursor < Len(query.where)
       THEN cursor' = cursor + 1 /\ pc' = pc
       ELSE cursor' = 1 /\ pc' = "classify"
    /\ UNCHANGED <<query, join_details, equivalence_classes, buckets, closure_ret,
                   tables, max_level, dp_table, all_plans, counts, sql_out>>
    /\ UNCHANGED <<rows, callVars, driverVars>>

(* classifier.classify_predicates *)
ClassifyPredicates ==
    /\ pc = "classify"
    /\ LET In(bucket) ==
               LET Keep(p) == BucketOf(Cardinality(predicate_tables[p])) = bucket
               IN  SelectSeq(all_predicates, Keep)
       IN  buckets' = [selections |-> buckets.selections \o In("selections"),
                       joins |-> buckets.joins \o In("joins"),
                       complex |-> buckets.complex \o In("complex")]
    /\ pc' = "constants"
    /\ UNCHANGED <<query, join_details, equivalence_classes, all_predicates,
                   predicate_tables, cursor, closure_ret, tables, max_level, dp_table,
                   all_plans, counts, sql_out>>
    /\ UNCHANGED <<rows, callVars, driverVars>>

(* _detect_constant_equality_joins and the add_join of each join it found; *)
(* from is the order of the relations in FROM                              *)
AddConstantEqualityJoins ==
    /\ pc = "constants"
    /\ \E from \in Orderings(query.from) :
           join_details' =
               AddConstantJoins(join_details,
                   detect_constant_equality_joins(all_predicates, predicate_tables, from), 1)
    /\ pc' = "closure"
    /\ UNCHANGED <<query, equivalence_classes, all_predicates, predicate_tables, buckets,
                   cursor, closure_ret, tables, max_level, dp_table, all_plans, counts,
                   sql_out>>
    /\ UNCHANGED <<rows, callVars, driverVars>>

(* join_graph.compute_transitive_closure *)
ComputeTransitiveClosure ==
    /\ pc = "closure"
    /\ LET r == compute_transitive_closure(join_details)
       IN  join_details' = r.jd /\ closure_ret' = r.added
    /\ pc' = "classes"
    /\ UNCHANGED <<query, equivalence_classes, all_predicates, predicate_tables, buckets,
                   cursor, tables, max_level, dp_table, all_plans, counts, sql_out>>
    /\ UNCHANGED <<rows, callVars, driverVars>>

(* a second compute_transitive_closure on the closed graph *)
ComputeTransitiveClosureAgain ==
    /\ pc = "classes"
    /\ LET r == compute_transitive_closure(join_details)
       IN  join_details' = r.jd /\ closure_ret' = r.added
    /\ pc' = "closed_twice"
    /\ UNCHANGED <<query, equivalence_classes, all_predicates, predicate_tables, buckets,
                   cursor, tables, max_level, dp_table, all_plans, counts, sql_out>>
    /\ UNCHANGED <<rows, callVars, driverVars>>

(* join_graph.build_equivalence_classes *)
BuildEquivalenceClasses ==
    /\ pc = "classes"
    /\ equivalence_classes' = build_equivalence_classes(join_details)
    /\ pc' = "enumerate_subsets"
    /\ UNCHANGED <<query, join_details, all_predicates, predicate_tables, buckets, cursor,
                   closure_ret, tables, max_level, dp_table, all_plans, counts, sql_out>>
    /\ UNCHANGED <<rows, callVars, driverVars>>

-----------------------------------------------------------------------------
(* process_query: enumerate, then render every plan *)

(* enumerate_subsets(tables, max_level) up to its level loop *)
(* variant: the list and the dict are emptied in place, the objects stay *)
same_objects(g) == g

(* self.all_plans = [] and self.counts = {} name objects made by the call *)
fresh_objects(g) == g + 1

(* the list and the dict a result refers to, as they are now *)
Deref(g) ==
    IF g = binding THEN [all_plans |-> all_plans, counts |-> counts] ELSE objects[g]

EnumerateSubsets ==
    /\ pc = "enumerate_subsets"
    /\ \E from \in Orderings(query.from), cap \in Caps :
           /\ max_level_arg' = PassedMaxLevel(cap)
           /\ tables' = sorted(from)
           /\ max_level' = Min(PassedMaxLevel(cap), Len(from))
           /\ IF Min(PassedMaxLevel(cap), Len(from)) >= 1
              THEN /\ pc' = "enumerate_level"
                   /\ cursor' = [level |-> 1, index |-> 1, added |-> 0]
              ELSE /\ pc' = "render"
                   /\ cursor' = 1
    /\ dp_table' = {}
    /\ all_plans' = <<>>
    /\ counts' = <<>>
    /\ binding' = fresh_objects(binding)
    /\ objects' = [g \in 1..(fresh_objects(binding) - 1) |->
                      IF g < binding THEN objects[g]
                      ELSE [all_plans |-> all_plans, counts |-> counts]]
    /\ UNCHANGED <<query, join_details, equivalence_classes, all_predicates,
                   predicate_tables, buckets, closure_ret, sql_out>>
    /\ UNCHANGED <<rows, add_calls, returned, held, driverVars>>

(* one iteration of the loop of _enumerate_level; when it is the last of the *)
(* level, enumerate_subsets records counts[level] and moves on               *)
EnumerateCandidate ==
    /\ pc = "enumerate_level"
    /\ LET level == cursor.level
           cands == LevelCandidates(tables, level)
           subset == Range(cands[cursor.index])
       IN  \E order \in Orderings(subset) :
             LET connected == is_connected(equivalence_classes, order)
                 decomp == IF connected /\ level # 1
                           THEN find_valid_decomposition(equivalence_classes, dp_table, subset)
                           ELSE None
                 add == connected /\ (level = 1 \/ decomp # None)
                 added == cursor.added + (IF add THEN 1 ELSE 0)
             IN  /\ IF add
                    THEN /\ dp_table' = dp_table \cup {canonical_key(subset)}
                         /\ all_plans' = Append(all_plans,
                                IF level = 1 THEN Plan(subset, NoSet, NoSet)
                                ELSE Plan(subset, decomp.left, decomp.right))
                    ELSE UNCHANGED <<dp_table, all_plans>>
                 /\ IF cursor.index < Len(cands)
                    THEN /\ cursor' = [cursor EXCEPT !.index = @ + 1, !.added = added]
                         /\ UNCHANGED <<counts, pc>>
                    ELSE /\ counts' = [k \in DOMAIN counts \cup {level} |->
                                          IF k = level THEN added ELSE counts[k]]
                         /\ IF level < max_level
                            THEN /\ cursor' = [level |-> level + 1, index |-> 1, added |-> 0]
                                 /\ pc' = pc
                            ELSE cursor' = 1 /\ pc' = "render"
    /\ UNCHANGED <<query, join_details, equivalence_classes, all_predicates,
                   predicate_tables, buckets, closure_ret, tables, max_level, sql_out>>
    /\ UNCHANGED <<rows, callVars, driverVars>>

(* generator.generate_subquery for the next plan *)
GenerateSubquery ==
    /\ pc = "render"
    /\ cursor \in 1..Len(all_plans)
    /\ LET subset == all_plans[cursor].subset
       IN  \E text \in generate_subquery(join_details, all_predicates, predicate_tables,
                                         subset) :
             \E iterated \in Orderings(subset) :
               /\ sql_out' = Append(sql_out, text)
               /\ rows' = IF Cardinality(subset) > 1
                          THEN Append(rows, [query_id |-> query_id,
                                             subset |-> format_subset(iterated),
                                             query |-> text])
                          ELSE rows
    /\ cursor' = cursor + 1
    /\ UNCHANGED <<pc, query, join_details, equivalence_classes, all_predicates,
                   predicate_tables, buckets, closure_ret, tables, max_level, dp_table,
                   all_plans, counts>>
    /\ UNCHANGED <<callVars, driverVars>>

(* process_query returns *)
ReturnRows ==
    /\ pc = "render"
    /\ (cursor = 1 /\ all_plans = <<>>) \/ cursor = Len(all_plans) + 1
    /\ pc' = "done"
    /\ UNCHANGED <<query, join_details, equivalence_classes, all_predicates,
                   predicate_tables, buckets, cursor, closure_ret, tables, max_level,
                   dp_table, all_plans, counts, sql_out>>
    /\ UNCHANGED <<rows, callVars, driverVars>>

Next ==
    \/ AddAssertedJoin
    \/ AddPredicate
    \/ ClassifyPredicates
    \/ AddConstantEqualityJoins
    \/ ComputeTransitiveClosure
    \/ ComputeTransitiveClosureAgain
    \/ BuildEquivalenceClasses
    \/ EnumerateSubsets
    \/ EnumerateCandidate
    \/ GenerateSubquery
    \/ ReturnRows

Spec == Init /\ [][Next]_vars

-----------------------------------------------------------------------------
(* parse_sql alone, on the queries of BuildQueries: from the fresh graph    *)
(* and classifier to the built equivalence classes                          *)

InitBuild ==
    /\ query \in {q \in BuildQueries : ValidQuery(q)}
    /\ pc = IF JoinConditions(query) # <<>> THEN "add_joins" ELSE AfterJoins(query)
    /\ cursor = 1
    /\ join_details = <<>>
    /\ equivalence_classes = <<>>
    /\ all_predicates = <<>>
    /\ predicate_tables = <<>>
    /\ buckets = [selections |-> <<>>, joins |-> <<>>, complex |-> <<>>]
    /\ closure_ret = 0
    /\ tables = <<>>
    /\ max_level = 0
    /\ dp_table = {}
    /\ all_plans = <<>>
    /\ counts = <<>>
    /\ sql_out = <<>>
    /\ rows = <<>>
    /\ NoCalls
    /\ MainIdle

NextBuild ==
    \/ AddAssertedJoin
    \/ AddPredicate
    \/ ClassifyPredicates
    \/ AddConstantEqualityJoins
    \/ ComputeTransitiveClosure
    \/ BuildEquivalenceClasses

SpecBuild == InitBuild /\ [][NextBuild]_vars

-----------------------------------------------------------------------------
(* PredicateClassifier on its own: add_predicate with any text and any      *)
(* relation set, then get_predicates_for_subset                             *)

MaxAdded == 3

PredicateTexts == {"p", "q"}

RelationSets == {{}, {"A"}, {"B"}, {"A", "B"}, {"A", "B", "C"}}

(* the variables of process_query, untouched *)
pipelineVars == <<query, join_details, equivalence_classes, cursor, closure_ret, tables,
                  max_level, dp_table, all_plans, counts, sql_out, rows>>

FreshPipeline ==
    /\ query = [from |-> {}, where |-> <<>>]
    /\ cursor = 1
    /\ join_details = <<>>
    /\ equivalence_classes = <<>>
    /\ closure_ret = 0
    /\ tables = <<>>
    /\ max_level = 0
    /\ dp_table = {}
    /\ all_plans = <<>>
    /\ counts = <<>>
    /\ sql_out = <<>>
    /\ rows = <<>>

FreshClassifier ==
    /\ all_predicates = <<>>
    /\ predicate_tables = <<>>
    /\ buckets = [selections |-> <<>>, joins |-> <<>>, complex |-> <<>>]

InitClassifier ==
    /\ pc = "classifier"
    /\ FreshClassifier
    /\ NoCalls
    /\ FreshPipeline
    /\ MainIdle

(* classifier.add_predicate(predicate, tables) *)
ClassifierAddPredicate ==
    /\ pc = "classifier"
    /\ Len(all_predicates) < MaxAdded
    /\ \E predicate \in PredicateTexts, ts \in RelationSets :
           /\ all_predicates' = Append(all_predicates, predicate)
           /\ predicate_tables' =
                  [q \in DOMAIN predicate_tables \cup {predicate} |->
                      IF q = predicate THEN ts ELSE predicate_tables[q]]
           /\ add_calls' = Append(add_calls, [predicate |-> predicate, tables |-> ts])
    /\ UNCHANGED <<pc, buckets, returned, max_level_arg, reuseVars, pipelineVars,
                   driverVars>>

(* classifier.get_predicates_for_subset(subset), called twice *)
ClassifierQuery ==
    /\ pc = "classifier"
    /\ \E subset \in SUBSET Aliases :
           returned' =
               [subset |-> subset,
                first |-> get_predicates_for_subset(all_predicates, predicate_tables, subset),
                second |-> get_predicates_for_subset(all_predicates, predicate_tables, subset)]
    /\ pc' = "answered"
    /\ UNCHANGED <<all_predicates, predicate_tables, buckets, add_calls, max_level_arg,
                   reuseVars, pipelineVars, driverVars>>

NextClassifier == ClassifierAddPredicate \/ ClassifierQuery

SpecClassifier == InitClassifier /\ [][NextClassifier]_vars

-----------------------------------------------------------------------------
(* A PostgreSQLJoinEnumerator on its own: made over a closed join graph,    *)
(* then enumerate_subsets called on it again and again                      *)

MaxHeld == 2

ReuseJoins == << <<"A", "x", "B", "x">>, <<"B", "x", "C", "x">>, <<"A", "y", "C", "y">> >>

(* the graph after add_join for the joins of ReuseJoins whose index is in S *)
RECURSIVE GraphOf(_, _)
GraphOf(S, n) ==
    IF n = 0 THEN <<>>
    ELSE LET g == GraphOf(S, n - 1)
             j == ReuseJoins[n]
         IN  IF n \in S THEN add_join(g, j[1], j[3], j[2], j[4], TRUE) ELSE g

InitReuse ==
    /\ pc = "enumerate_subsets"
    /\ query \in {[from |-> T, where |-> <<>>] : T \in (SUBSET Aliases) \ {{}}}
    /\ \E S \in SUBSET (1..Len(ReuseJoins)) :
           LET r == compute_transitive_closure(GraphOf(S, Len(ReuseJoins)))
           IN  /\ join_details = r.jd
               /\ closure_ret = r.added
               /\ equivalence_classes = build_equivalence_classes(r.jd)
    /\ cursor = 1
    /\ tables = <<>>
    /\ max_level = 0
    /\ dp_table = {}
    /\ all_plans = <<>>
    /\ counts = <<>>
    /\ sql_out = <<>>
    /\ rows = <<>>
    /\ FreshClassifier
    /\ NoCalls
    /\ MainIdle

(* return EnumerationResult(all_plans=self.all_plans, counts=self.counts):  *)
(* the caller holds the two objects, with the contents they have now        *)
ReturnResult ==
    /\ pc = "render"
    /\ cursor = 1
    /\ Len(held) < MaxHeld
    /\ held' = Append(held, [ref |-> binding, all_plans |-> all_plans, counts |-> counts])
    /\ pc' = "enumerate_subsets"
    /\ UNCHANGED <<query, join_details, equivalence_classes, all_predicates,
                   predicate_tables, buckets, cursor, closure_ret, tables, max_level,
                   dp_table, all_plans, counts, sql_out>>
    /\ UNCHANGED <<rows, add_calls, returned, max_level_arg, binding, objects, driverVars>>

NextReuse == EnumerateSubsets \/ EnumerateCandidate \/ ReturnResult

SpecReuse == InitReuse /\ [][NextReuse]_vars

-----------------------------------------------------------------------------
(* main: the loop over the queries of the input file                        *)

MaxQueries == 3

MaxRows == 1

(* what process_query does with a query: it raises (parse failure, no       *)
(* relation found, a failure while a plan is rendered) or returns; rows is  *)
(* the number of rows in its local list when it raised or returned          *)
Outcomes == [fails : BOOLEAN, rows : 0..MaxRows]

InputFiles == UNION {[1..n -> Outcomes] : n \in 0..MaxQueries}

Header == [query_id |-> 0, row |-> 0]

RowsOf(id, n) == [k \in 1..n |-> [query_id |-> id, row |-> k]]

(* variant: the rows go to the writer as process_query builds them *)
rows_as_built(id, q) == RowsOf(id, q.rows)

(* rows = process_query(...); for row in rows: writer.writerow(row) -- the  *)
(* loop over the rows is reached only when process_query has returned       *)
written_rows(id, q) == IF q.fails THEN <<>> ELSE RowsOf(id, q.rows)

InitDriver ==
    /\ pc = "main"
    /\ queries \in InputFiles
    /\ args \in [stop_on_error : BOOLEAN, verbose : BOOLEAN]
    /\ tqdm_installed \in BOOLEAN
    /\ query_id = 0
    /\ results = <<>>
    /\ errors = <<>>
    /\ csvfile = <<>>
    /\ exit_code = <<>>
    /\ FreshClassifier
    /\ NoCalls
    /\ FreshPipeline

(* no query in the input file: a warning and sys.exit(0) *)
NoQueries ==
    /\ pc = "main"
    /\ queries = <<>>
    /\ pc' = "exited"
    /\ exit_code' = <<0>>
    /\ UNCHANGED <<args, tqdm_installed, queries, query_id, results, errors, csvfile>>
    /\ UNCHANGED <<all_predicates, predicate_tables, buckets, pipelineVars, callVars>>

(* the output file is opened and the header written *)
OpenOutput ==
    /\ pc = "main"
    /\ queries # <<>>
    /\ csvfile' = <<Header>>
    /\ pc' = "main_loop"
    /\ UNCHANGED <<args, tqdm_installed, queries, query_id, results, errors, exit_code>>
    /\ UNCHANGED <<all_predicates, predicate_tables, buckets, pipelineVars, callVars>>

(* one turn of the loop. progress_bar is tqdm's bar when tqdm was imported  *)
(* and the plain list of queries otherwise; the list has no write method,   *)
(* so a progress_bar.write raises, inside the handler of the inner try as   *)
(* well, and the outer handler ends the process with sys.exit(1)            *)
ProcessQuery ==
    /\ pc = "main_loop"
    /\ LET id == query_id + 1
           q == queries[id]
           write_raises == ~tqdm_installed
           Continue == /\ pc' = IF id < Len(queries) THEN pc ELSE "summary"
                       /\ UNCHANGED exit_code
           Exit == pc' = "exited" /\ exit_code' = <<1>>
       IN  /\ query_id' = id
           /\ csvfile' = csvfile \o written_rows(id, q)
           /\ IF ~q.fails
              THEN /\ results' = Append(results, <<id, q.rows>>)
                   /\ UNCHANGED errors
                   /\ IF args.verbose /\ write_raises THEN Exit ELSE Continue
              ELSE /\ UNCHANGED results
                   /\ IF write_raises
                      THEN UNCHANGED errors /\ Exit
                      ELSE /\ errors' = Append(errors, id)
                           /\ IF args.stop_on_error THEN Exit ELSE Continue
    /\ UNCHANGED <<args, tqdm_installed, queries>>
    /\ UNCHANGED <<all_predicates, predicate_tables, buckets, pipelineVars, callVars>>

(* the summary is printed and main returns *)
PrintSummary ==
    /\ pc = "summary"
    /\ pc' = "exited"
    /\ exit_code' = <<0>>
    /\ UNCHANGED <<args, tqdm_installed, queries, query_id, results, errors, csvfile>>
    /\ UNCHANGED <<all_predicates, predicate_tables, buckets, pipelineVars, callVars>>

NextDriver == NoQueries \/ OpenOutput \/ ProcessQuery \/ PrintSummary

SpecDriver == InitDriver /\ [][NextDriver]_vars

-----------------------------------------------------------------------------
(* Vocabulary of the properties *)

PlanIndexes == 1..Len(all_plans)

Emitted == {all_plans[i].subset : i \in PlanIndexes}

EnumerationOver == pc \in {"render", "done"}

(* enumerate_subsets has just returned *)
EnumerationReturned == pc = "render" /\ cursor = 1

(* two relations have a column each in one stored equivalence class *)
ShareClass(a, b) ==
    \E i \in 1..Len(equivalence_classes) :
        \E u, v \in equivalence_classes[i] : u[1] = a /\ v[1] = b

(* a stored join detail lies between the two relations *)
HaveDetail(a, b) ==
    \E d \in AllDetails(join_details) : {d.t1, d.t2} = {a, b}

(* S cannot be cut in two parts with no link between them *)
ConnectedBy(S, Link(_, _)) ==
    \A U \in SUBSET S :
        (U # {} /\ U # S) => \E u \in U, v \in S \ U : Link(u, v)

-----------------------------------------------------------------------------
(* C1: every non-singleton plan has left and right that are subsets of     *)
(* earlier plans, that partition its subset and that can_join accepts;     *)
(* singleton plans have no left and no right.                              *)
WitnessDecomposition ==
    \A i \in PlanIndexes :
        LET p == all_plans[i]
        IN  IF Cardinality(p.subset) = 1
            THEN p.left = NoSet /\ p.right = NoSet
            ELSE /\ p.left # NoSet /\ p.right # NoSet
                 /\ \E j \in 1..(i - 1) : all_plans[j].subset = p.left
                 /\ \E j \in 1..(i - 1) : all_plans[j].subset = p.right
                 /\ p.left \cup p.right = p.subset
                 /\ p.left \cap p.right = {}
                 /\ can_join(equivalence_classes, p.left, p.right)

WitnessDecompositionReached ==
    /\ pc = "done"
    /\ \E i \in PlanIndexes :
           /\ all_plans[i].subset = {"A", "B", "C"}
           /\ all_plans[i].left = {"B"}
           /\ all_plans[i].right = {"A", "C"}

(* C2: along the plan sequence the size of the subset never decreases. *)
OrderedByLevel ==
    \A i, j \in PlanIndexes :
        i < j => Cardinality(all_plans[i].subset) <= Cardinality(all_plans[j].subset)

OrderedByLevelReached ==
    /\ pc = "done"
    /\ \E i, j, k \in PlanIndexes :
           /\ Cardinality(all_plans[i].subset) = 1
           /\ Cardinality(all_plans[j].subset) = 2
           /\ Cardinality(all_plans[k].subset) = 3

(* C3: every emitted subset is connected: is_connected accepts it whatever *)
(* the order the set is iterated in, its relations are linked through the  *)
(* stored equivalence classes, and through stored join details; relations  *)
(* with no join detail between them are never emitted as a pair.           *)
EmittedConnected ==
    \A S \in Emitted :
        /\ \A order \in Orderings(S) : is_connected(equivalence_classes, order)
        /\ ConnectedBy(S, ShareClass)
        /\ ConnectedBy(S, HaveDetail)

EmittedConnectedReached ==
    /\ pc = "done"
    /\ {"A", "B"} \in Emitted
    /\ {"A", "C"} \notin Emitted
    /\ {"A", "B", "C"} \in Emitted

(* C4: once the enumeration is over, every connected subset of the         *)
(* relation list with at most max_level relations has been emitted.        *)
Complete ==
    EnumerationOver =>
        \A S \in SUBSET Range(tables) :
            (/\ 1 <= Cardinality(S)
             /\ Cardinality(S) <= max_level
             /\ ConnectedBy(S, ShareClass))
            => S \in Emitted /\ canonical_key(S) \in dp_table

CompleteReached ==
    /\ pc = "done"
    /\ max_level = 3
    /\ Emitted = (SUBSET {"A", "B", "C"}) \ {{}, {"B", "C"}}

-----------------------------------------------------------------------------
(* the column of relation t in the join text p *)
ColumnOf(p, t) == IF p.t1 = t THEN p.c1 ELSE p.c2

(* FROM A, B, C WHERE A.c1 = B.c2 AND B.c3 = C.c4 with c2 # c3 *)
TwoJoinsApartAtB ==
    /\ query.from = {"A", "B", "C"}
    /\ Len(query.where) = 2
    /\ \E ab, bc \in JoinConjuncts :
           /\ Range(query.where) = {ab, bc}
           /\ TablesOfText(ab) = {"A", "B"}
           /\ TablesOfText(bc) = {"B", "C"}
           /\ ColumnOf(ab, "B") # ColumnOf(bc, "B")

ClosureReturned ==
    pc \in {"classes", "closed_twice", "enumerate_subsets", "enumerate_level",
            "render", "done"}

(* C5 as stated: with only A.c1 = B.c2 and B.c3 = C.c4 asserted, c2 # c3,  *)
(* the closure adds nothing; the plans are {A}, {B}, {C}, {A,B}, {B,C};    *)
(* {A,C} is not emitted and no subset is emitted at level 3.               *)
ChainApartAtBNoLevel3 ==
    TwoJoinsApartAtB =>
        /\ \A d \in AllDetails(join_details) : d.is_original
        /\ ClosureReturned => closure_ret = 0
        /\ {"A", "C"} \notin Emitted
        /\ \A S \in Emitted : Cardinality(S) < 3
        /\ (EnumerationOver /\ max_level = 3) =>
               /\ [i \in PlanIndexes |-> all_plans[i].subset]
                      = <<{"A"}, {"B"}, {"C"}, {"A", "B"}, {"B", "C"}>>
               /\ counts = <<3, 2, 0>>

(* C5 amended: with only A.c1 = B.c2 and B.c3 = C.c4 asserted, c2 # c3,    *)
(* the closure adds nothing and {A,C} is not emitted; the plans are {A},   *)
(* {B}, {C}, {A,B}, {B,C} and, at level 3, {A,B,C} = {A} with {B,C}.       *)
ChainApartAtB ==
    TwoJoinsApartAtB =>
        /\ \A d \in AllDetails(join_details) : d.is_original
        /\ ClosureReturned => closure_ret = 0
        /\ {"A", "C"} \notin Emitted
        /\ (EnumerationOver /\ max_level = 3) =>
               /\ [i \in PlanIndexes |-> all_plans[i].subset]
                      = <<{"A"}, {"B"}, {"C"}, {"A", "B"}, {"B", "C"}, {"A", "B", "C"}>>
               /\ all_plans[6].left = {"A"} /\ all_plans[6].right = {"B", "C"}
               /\ counts = <<3, 2, 1>>

ChainApartAtBReached ==
    /\ TwoJoinsApartAtB
    /\ pc = "done"
    /\ max_level = 3
    /\ Len(sql_out) = 6

-----------------------------------------------------------------------------
(* What the query itself asserts: the join conditions of WHERE, and for    *)
(* every selection column = constant the column's tie to that constant     *)
FactEdges ==
    {{<<p.t1, p.c1>>, <<p.t2, p.c2>>} :
        p \in {q \in Range(query.where) : IsJoinCondition(q)}}
    \cup
    {{<<p.t1, p.c1>>, <<"constant", normalize_value(p.val)>>} :
        p \in {q \in Range(query.where) : q.kind = "sel" /\ q.op = "="}}

RECURSIVE ReachedBy(_, _)
ReachedBy(nodes, edges) ==
    LET more == nodes \cup UNION {e \in edges : e \cap nodes # {}}
    IN  IF more = nodes THEN nodes ELSE ReachedBy(more, edges)

Entailed(u, v) == v \in ReachedBy({u}, FactEdges)

SameClassIn(ecs, u, v) == \E i \in 1..Len(ecs) : u \in ecs[i] /\ v \in ecs[i]

AddedDetails == AllDetails(join_details') \ AllDetails(join_details)

ClosureFixedPoint ==
    [][(pc = "classes" /\ pc' = "closed_twice") =>
           (closure_ret' = 0 /\ join_details' = join_details)]_vars

ClosureFixedPointReached ==
    /\ pc = "closed_twice"
    /\ Cardinality({d \in AllDetails(join_details) : ~d.is_original}) >= 2

-----------------------------------------------------------------------------
(* Vocabulary of the rendered queries: sql_out[i] renders all_plans[i] *)

Rendered == 1..Len(sql_out)

OnTexts(r) == {r.joins[k].on : k \in 1..Len(r.joins)}

RenderedTexts(r) == OnTexts(r) \cup Range(r.where)

ClassifierTexts(S) ==
    LET ps == get_predicates_for_subset(all_predicates, predicate_tables, S)
    IN  Range(ps.selections) \cup Range(ps.joins) \cup Range(ps.complex)

(* the relations in the join expression before its k-th JOIN clause *)
Attached(r, k) == {r.from} \cup {r.joins[j].table : j \in 1..(k - 1)}

AssertedBetween(U, V) ==
    {d \in AllDetails(join_details) :
        /\ d.is_original
        /\ (d.t1 \in U /\ d.t2 \in V) \/ (d.t2 \in U /\ d.t1 \in V)}

(* C8: for every connected subset S of two or more relations, whatever the *)
(* iteration order of the attached set, the rendered join expression       *)
(* starts from the smallest alias of S and has |S|-1 JOIN clauses, one for *)
(* each other relation of S, each with the text of a stored join detail    *)
(* after ON.                                                               *)
LeftDeepComplete ==
    EnumerationReturned =>
        \A S \in SUBSET Range(tables) :
            (/\ Cardinality(S) >= 2
             /\ \E order \in Orderings(S) : is_connected(equivalence_classes, order))
            => \A r \in generate_subquery(join_details, all_predicates,
                                          predicate_tables, S) :
                   /\ r.from \in S
                   /\ \A t \in S : t = r.from \/ AliasLess(r.from, t)
                   /\ Len(r.joins) = Cardinality(S) - 1
                   /\ \A t \in S \ {r.from} :
                          Cardinality({k \in 1..Len(r.joins) : r.joins[k].table = t}) = 1
                   /\ \A k \in 1..Len(r.joins) :
                          \E d \in AllDetails(join_details) :
                              /\ DetailText(d) = r.joins[k].on
                              /\ {d.t1, d.t2} \subseteq S

LeftDeepCompleteReached ==
    /\ pc = "done"
    /\ \E i \in Rendered :
           /\ Len(sql_out[i].joins) = 2
           /\ \E k \in 1..2 : ~sql_out[i].joins[k].is_original

AssertedPreferred ==
    pc = "done" =>
        \A i \in Rendered :
            LET S == all_plans[i].subset
                r == sql_out[i]
            IN  \A k \in 1..Len(r.joins) :
                    AssertedBetween(Attached(r, k), S \ Attached(r, k)) # {}
                    => /\ r.joins[k].is_original
                       /\ \E d \in AssertedBetween(Attached(r, k), {r.joins[k].table}) :
                              DetailText(d) = r.joins[k].on

AssertedPreferredReached ==
    /\ pc = "done"
    /\ \E i \in Rendered :
           /\ sql_out[i].from = "A"
           /\ Len(sql_out[i].joins) = 2
           /\ sql_out[i].joins[1].table = "C"
           /\ sql_out[i].joins[1].is_original
           /\ HaveDetail("A", "B")

-----------------------------------------------------------------------------
(* C11: for every plan, generate_subquery has one possible result, whatever *)
(* the order in which the set of attached relations is iterated.            *)
RendererDeterministic ==
    EnumerationReturned =>
        \A i \in PlanIndexes :
            Cardinality(generate_subquery(join_details, all_predicates,
                                          predicate_tables, all_plans[i].subset)) = 1

(* the candidate the next iteration of _enumerate_level looks at *)
Candidate == Range(LevelCandidates(tables, cursor.level)[cursor.index])

(* what the iteration does when every set is walked in sorted order *)
SortedOrderAdmits ==
    /\ is_connected(equivalence_classes, SortedList(Candidate))
    /\ \/ cursor.level = 1
       \/ find_valid_decomposition(equivalence_classes, dp_table, Candidate) # None

SortedOrderPlan ==
    IF cursor.level = 1 THEN Plan(Candidate, NoSet, NoSet)
    ELSE LET d == find_valid_decomposition(equivalence_classes, dp_table, Candidate)
         IN  Plan(Candidate, d.left, d.right)

(* C12: the relation list is sorted whatever the order of FROM, and every   *)
(* iteration of the level loop admits or skips its candidate, and records   *)
(* its plan, exactly as it does when every set is walked in sorted order:   *)
(* the plan sequence and the counts do not depend on set iteration order.   *)
EnumeratorDeterministic ==
    [][/\ pc = "enumerate_subsets" => tables' = SortedList(query.from)
       /\ pc = "enumerate_level" =>
              /\ is_connected(equivalence_classes, SortedList(Candidate))
                     = \A order \in Orderings(Candidate) :
                           is_connected(equivalence_classes, order)
              /\ IF SortedOrderAdmits
                 THEN /\ all_plans' = Append(all_plans, SortedOrderPlan)
                      /\ dp_table' = dp_table \cup {canonical_key(Candidate)}
                 ELSE /\ all_plans' = all_plans
                      /\ dp_table' = dp_table
              /\ counts' # counts =>
                     counts'[cursor.level]
                         = cursor.added + (IF SortedOrderAdmits THEN 1 ELSE 0)]_vars

EnumeratorDeterministicReached ==
    /\ pc = "done"
    /\ {"A", "B", "C"} \in Emitted
    /\ \E a, b \in {"A", "B", "C"} : a # b /\ ~ShareClass(a, b)

-----------------------------------------------------------------------------
(* C13: no stored detail has the same relation at both ends, at any point   *)
(* of the build pipeline.                                                   *)
NoSelfEdges ==
    /\ \A d \in AllDetails(join_details) : d.t1 # d.t2
    /\ \A i \in 1..Len(join_details) : join_details[i].key[1] # join_details[i].key[2]

-----------------------------------------------------------------------------
(* the entry add_join touches: its key and the detail it appended *)
Stored(jd, t1, t2) ==
    LET e == jd[KeyIndex(jd, EdgeKey(t1, t2))]
    IN  [key |-> e.key, detail |-> e.details[Len(e.details)]]

(* C14: on any join graph of the build pipeline and for any two distinct    *)
(* relations a, b, add_join(b, a, y, x, o) and add_join(a, b, x, y, o)      *)
(* leave the same graph: the key is (smaller alias, larger alias), never    *)
(* the reverse, and the appended detail has the smaller alias as t1 with    *)
(* its own column, the larger as t2 with its own column, and origin o.      *)
AddJoinNormalizes ==
    \A a, b \in Aliases : \A x, y \in Columns : \A o \in BOOLEAN :
        AliasLess(a, b) =>
            LET fwd == add_join(join_details, a, b, x, y, o)
                rev == add_join(join_details, b, a, y, x, o)
            IN  /\ fwd = rev
                /\ Stored(rev, b, a).key = <<a, b>>
                /\ ~HasKey(rev, <<b, a>>)
                /\ Stored(rev, b, a).detail =
                       [t1 |-> a, t1_col |-> x, t2 |-> b, t2_col |-> y,
                        is_original |-> o]

(* a join written B.y = A.x has been stored *)
AddJoinNormalizesReached ==
    /\ JoinText("B", "y", "A", "x") \in Range(query.where)
    /\ pc = "classify"
    /\ \E d \in AllDetails(join_details) :
           d = [t1 |-> "A", t1_col |-> "x", t2 |-> "B", t2_col |-> "y",
                is_original |-> TRUE]

-----------------------------------------------------------------------------
(* the qualified columns of the stored details, and the details as edges *)
DetailColumns == UNION {{TC1(d), TC2(d)} : d \in AllDetails(join_details)}

DetailEdges == {{TC1(d), TC2(d)} : d \in AllDetails(join_details)}

(* C15: right after build_equivalence_classes the classes are non-empty and *)
(* pairwise disjoint, their union is the set of qualified columns of the    *)
(* stored details, two columns share a class exactly when a chain of stored *)
(* details links them, and the number returned is the number of classes.    *)
ClassesAreComponents ==
    pc = "enumerate_subsets" =>
        LET ecs == equivalence_classes
        IN  /\ \A i, j \in 1..Len(ecs) : i # j => ecs[i] \cap ecs[j] = {}
            /\ \A i \in 1..Len(ecs) : ecs[i] # {}
            /\ UNION Range(ecs) = DetailColumns
            /\ \A u, v \in DetailColumns :
                   SameClassIn(ecs, u, v) <=> v \in ReachedBy({u}, DetailEdges)
            /\ number_of_classes(join_details) = Cardinality(Range(ecs))

ClassesAreComponentsReached ==
    /\ pc = "enumerate_subsets"
    /\ Len(equivalence_classes) = 2
    /\ \E i \in 1..2 : Cardinality(equivalence_classes[i]) = 3

-----------------------------------------------------------------------------
Ends(d) == {TC1(d), TC2(d)}

(* pairs of stored details on different edges that meet in one qualified    *)
(* column and end in two different relations: the two far ends              *)
ComposablePairs ==
    {<<u, v>> \in DetailColumns \X DetailColumns :
        /\ u[1] # v[1]
        /\ \E d1, d2 \in AllDetails(join_details) : \E m \in DetailColumns :
               /\ Ends(d1) = {u, m} /\ Ends(d2) = {m, v}
               /\ m[1] # u[1] /\ m[1] # v[1]}

(* FROM A, B, C WHERE A.c1 = B.c2 AND B.c2 = C.c3 *)
TwoJoinsMeetingAtB ==
    /\ query.from = {"A", "B", "C"}
    /\ Len(query.where) = 2
    /\ \E ab, bc \in JoinConjuncts :
           /\ Range(query.where) = {ab, bc}
           /\ TablesOfText(ab) = {"A", "B"}
           /\ TablesOfText(bc) = {"B", "C"}
           /\ ColumnOf(ab, "B") = ColumnOf(bc, "B")

-----------------------------------------------------------------------------
(* the constant a selection compares its column with, quotes aside *)
WrittenConstant(val) == <<val.body, val.tail>>

(* the one-value facts the query states: column = constant, or IN of one *)
SingleValueFacts ==
    {<<p.t1, p.c1, WrittenConstant(p.val)>> :
        p \in {q \in Range(query.where) :
                  /\ q.kind = "sel"
                  /\ \/ q.op = "="
                     \/ q.op = "IN" /\ q.val.more = <<>>}}

ShareFact(a, b, c) ==
    \E f, g \in SingleValueFacts :
        f[1] = a /\ g[1] = b /\ f[2] = c /\ g[2] = c /\ f[3] = g[3]

(* positions of the stored derived details tying a.c and b.c *)
DerivedBetween(a, b, c) ==
    {<<i, k>> \in (1..Len(join_details)) \X (1..MaxFacts * MaxFacts) :
        /\ k <= Len(join_details[i].details)
        /\ LET d == join_details[i].details[k]
           IN  ~d.is_original /\ Ends(d) = {<<a, c>>, <<b, c>>}}

ConstantStepReturned == pc = "closure"

(* C17: right after the constant-equality step, two different relations     *)
(* that state the same constant for the same column name are tied by        *)
(* exactly one derived detail on that column, and the step stored no other  *)
(* derived detail: none between relations whose constants differ or whose   *)
(* constraint is a longer IN list, an inequality, a pattern match or a null *)
(* test.                                                                    *)
OneDerivedEdgePerPair ==
    ConstantStepReturned =>
        /\ \A a, b \in Aliases : \A c \in Columns :
               (a # b /\ ShareFact(a, b, c)) => Cardinality(DerivedBetween(a, b, c)) = 1
        /\ \A d \in AllDetails(join_details) :
               ~d.is_original =>
                   /\ d.t1_col = d.t2_col
                   /\ d.t1 # d.t2
                   /\ ShareFact(d.t1, d.t2, d.t1_col)

-----------------------------------------------------------------------------
(* the texts of the add_predicate calls whose relation set lies in S and    *)
(* has a number of relations in sizes, in call order                        *)
CallsWithin(S, sizes) ==
    LET Keep(c) == c.tables \subseteq S /\ Cardinality(c.tables) \in sizes
        kept == SelectSeq(add_calls, Keep)
    IN  [i \in 1..Len(kept) |-> kept[i].predicate]

ThreeOrMore == 3..Cardinality(Aliases)

(* C18: get_predicates_for_subset(S) returns the predicates that were added *)
(* with a relation set inside S, and only those: the ones of one relation   *)
(* in selections, of two in joins, of three or more in complex, each bucket *)
(* in the order of the add_predicate calls; a second call with the same S   *)
(* returns the same three lists.                                            *)
ClassifierAnswers ==
    pc = "answered" =>
        LET S == returned.subset
            r == returned.first
        IN  /\ r.selections = CallsWithin(S, {1})
            /\ r.joins = CallsWithin(S, {2})
            /\ r.complex = CallsWithin(S, ThreeOrMore)
            /\ Len(r.selections) + Len(r.joins) + Len(r.complex)
                   = Len(CallsWithin(S, 0..Cardinality(Aliases)))
            /\ returned.second = returned.first

-----------------------------------------------------------------------------
Capped(K, n) == IF K <= n THEN K ELSE n

PlansOfSize(l) == {i \in PlanIndexes : Cardinality(all_plans[i].subset) = l}

(* C19: once enumerate_subsets(T, K) has returned, no plan has more than    *)
(* min(K, |T|) relations, and the count map has exactly the keys            *)
(* 1..min(K, |T|), each with the number of plans of that size (0 when the   *)
(* level admitted none).                                                    *)
LevelCap ==
    EnumerationReturned =>
        LET bound == Capped(max_level_arg, Cardinality(query.from))
        IN  /\ \A i \in PlanIndexes : Cardinality(all_plans[i].subset) <= bound
            /\ DOMAIN counts = 1..bound
            /\ \A l \in 1..bound : counts[l] = Cardinality(PlansOfSize(l))

(* three relations, A and B joinable, cap 1: only the three singletons *)
LevelCapReached ==
    /\ pc = "done"
    /\ Cardinality(query.from) = 3
    /\ ShareClass("A", "B")
    /\ max_level_arg = 1
    /\ counts = <<3>>
    /\ PlansOfSize(2) = {}

-----------------------------------------------------------------------------
Failing == {i \in 1..Len(queries) : queries[i].fails}

FirstFailing == CHOOSE i \in Failing : \A j \in Failing : i <= j

(* the header and the rows of the queries 1..n that did not fail *)
RECURSIVE RowsUpTo(_)
RowsUpTo(n) ==
    IF n = 0 THEN <<Header>>
    ELSE RowsUpTo(n - 1) \o (IF queries[n].fails THEN <<>> ELSE RowsOf(n, queries[n].rows))

RECURSIVE FailingUpTo(_)
FailingUpTo(n) ==
    IF n = 0 THEN <<>>
    ELSE FailingUpTo(n - 1) \o (IF queries[n].fails THEN <<n>> ELSE <<>>)

(* C20: when a run with a failing query has ended: without stop-on-error    *)
(* every query was attempted in input order, each failing one is recorded   *)
(* as an error, the rows of the others are in the output and the exit code  *)
(* is 0; with stop-on-error the run stopped at the first failing query with *)
(* exit code 1, and the output holds the rows of the queries before it.     *)
DriverErrorPolicy ==
    (pc = "exited" /\ Failing # {}) =>
        IF args.stop_on_error
        THEN /\ exit_code = <<1>>
             /\ query_id = FirstFailing
             /\ errors = <<FirstFailing>>
             /\ csvfile = RowsUpTo(FirstFailing)
        ELSE /\ exit_code = <<0>>
             /\ query_id = Len(queries)
             /\ errors = FailingUpTo(Len(queries))
             /\ csvfile = RowsUpTo(Len(queries))

-----------------------------------------------------------------------------
(* the positions of the plans of two or more relations, in plan order *)
RECURSIVE OutputPlans(_)
OutputPlans(n) ==
    IF n = 0 THEN <<>>
    ELSE OutputPlans(n - 1)
         \o (IF Cardinality(all_plans[n].subset) >= 2 THEN <<n>> ELSE <<>>)

IsAscending(seq) == \A i \in 1..(Len(seq) - 1) : AliasLess(seq[i], seq[i + 1])

(* C21: when process_query returns, its rows are, in plan order, one row    *)
(* for every emitted plan of two or more relations and none for a           *)
(* singleton; each row carries the query's id, the aliases of the subset in *)
(* ascending order and the text rendered for that plan.                     *)
OutputFilter ==
    pc = "done" =>
        LET out == OutputPlans(Len(all_plans))
        IN  /\ Len(rows) = Len(out)
            /\ \A k \in 1..Len(out) :
                   /\ rows[k].query_id = query_id
                   /\ Range(rows[k].subset) = all_plans[out[k]].subset
                   /\ Len(rows[k].subset) = Cardinality(all_plans[out[k]].subset)
                   /\ IsAscending(rows[k].subset)
                   /\ rows[k].query = sql_out[out[k]]

OutputFilterReached ==
    /\ pc = "done"
    /\ Len(all_plans) = 7
    /\ Len(rows) = 4
    /\ rows[4].subset = <<"A", "B", "C">>

-----------------------------------------------------------------------------
(* the phases of parse_sql and what follows them, in order *)
PhaseOf(p) ==
    CASE p = "add_joins" -> 1
      [] p \in {"add_predicates", "classify"} -> 2
      [] p = "constants" -> 3
      [] p = "closure" -> 4
      [] p = "classes" -> 5
      [] OTHER -> 6

(* C22: the join graph is built in the order asserted details, then         *)
(* constant-equality details, then closure, then classes: asserted details  *)
(* are added only in the first phase, the later phases add derived details  *)
(* only, no detail is added once the classes are built, and the stored      *)
(* classes change only at build_equivalence_classes, so that until then the *)
(* connectivity queries answer from the classes of the fresh graph.         *)
BuildOrder ==
    [][ /\ PhaseOf(pc') >= PhaseOf(pc)
        /\ (join_details' # join_details) => pc \in {"add_joins", "constants", "closure"}
        /\ pc = "add_joins" => \A d \in AddedDetails : d.is_original
        /\ pc \in {"constants", "closure"} => \A d \in AddedDetails : ~d.is_original
        /\ (equivalence_classes' # equivalence_classes) =>
               /\ pc = "classes"
               /\ equivalence_classes' = build_equivalence_classes(join_details)
               /\ join_details' = join_details
        /\ PhaseOf(pc') <= 5 =>
               /\ equivalence_classes' = <<>>
               /\ \A a, b \in Aliases : ~are_in_same_ec(equivalence_classes', a, b)
      ]_vars

(* the closure has returned with a detail between A and B stored, and the   *)
(* classes are not built yet: A and B do not share a class                  *)
BuildOrderReached ==
    /\ pc = "classes"
    /\ HaveDetail("A", "B")
    /\ closure_ret > 0
    /\ \E d \in AllDetails(join_details) : d.is_original
    /\ \E d \in AllDetails(join_details) : ~d.is_original /\ d.t1_col = d.t2_col
    /\ ~are_in_same_ec(equivalence_classes, "A", "B")

-----------------------------------------------------------------------------
(* the relations of S reached from start by steps of are_in_same_ec inside S *)
RECURSIVE ReachedInside(_, _)
ReachedInside(S, seen) ==
    LET more == seen \cup {t \in S : \E s \in seen :
                               are_in_same_ec(equivalence_classes, s, t)}
    IN  IF more = seen THEN seen ELSE ReachedInside(S, more)

ClassesBuilt == pc = "enumerate_subsets"

(* C23: on the built classes, are_in_same_ec(r1, r2) holds exactly when one *)
(* class has a column of each, and is symmetric; is_connected(S), whatever  *)
(* member it starts from and however it iterates S, holds exactly when S    *)
(* has at most one member or every member is reached from the start by      *)
(* are_in_same_ec steps through members of S only; can_join(L, R) holds     *)
(* exactly when some l of L and r of R satisfy are_in_same_ec(l, r).        *)
ConnectivityQueries ==
    ClassesBuilt =>
        LET ecs == equivalence_classes
        IN  /\ \A r1, r2 \in Aliases :
                   /\ are_in_same_ec(ecs, r1, r2) <=> ShareClass(r1, r2)
                   /\ are_in_same_ec(ecs, r1, r2) <=> are_in_same_ec(ecs, r2, r1)
            /\ \A S \in SUBSET Aliases : \A order \in Orderings(S) :
                   is_connected(ecs, order)
                       <=> \/ Cardinality(S) <= 1
                           \/ \A start \in S : ReachedInside(S, {start}) = S
            /\ \A L, R \in (SUBSET Aliases) \ {{}} :
                   can_join(ecs, L, R)
                       <=> \E l \in L, r \in R : are_in_same_ec(ecs, l, r)

(* A and C are tied only through B: {A, B, C} is connected, {A, C} is not *)
ConnectivityQueriesReached ==
    /\ ClassesBuilt
    /\ is_connected(equivalence_classes, <<"A", "C", "B">>)
    /\ ~is_connected(equivalence_classes, <<"A", "C">>)
    /\ ~are_in_same_ec(equivalence_classes, "A", "C")
    /\ can_join(equivalence_classes, {"A"}, {"B", "C"})

-----------------------------------------------------------------------------
(* lexicographic order of two alias tuples of one length *)
LexLess(s, t) ==
    \E k \in 1..Len(s) :
        /\ \A j \in 1..(k - 1) : s[j] = t[j]
        /\ AliasLess(s[k], t[k])

(* C24: when the enumeration returns, the plans of one level stand in the   *)
(* plan list in lexicographic order of their sorted alias tuples, whatever  *)
(* the order of the relation list given to enumerate_subsets.               *)
LexicographicWithinLevel ==
    EnumerationReturned =>
        \A i, j \in PlanIndexes :
            (i < j /\ Cardinality(all_plans[i].subset) = Cardinality(all_plans[j].subset))
            => LexLess(SortedList(all_plans[i].subset), SortedList(all_plans[j].subset))

(* {A}, {B}, {C}, then {A, B}, {A, C}, {B, C}, then {A, B, C} *)
LexicographicWithinLevelReached ==
    /\ pc = "done"
    /\ Len(all_plans) = 7
    /\ all_plans[4].subset = {"A", "B"}
    /\ all_plans[5].subset = {"A", "C"}
    /\ all_plans[6].subset = {"B", "C"}

-----------------------------------------------------------------------------
(* C25: when every plan is rendered, the WHERE list of a query of several   *)
(* relations is the classifier's selections for the subset, then its        *)
(* two-relation predicates whose text stands after no ON, then its complex  *)
(* predicates, each part in the classifier's order; so every text the       *)
(* classifier returns stands after an ON or in WHERE, and no two-relation   *)
(* predicate text stands both after an ON and in WHERE.                     *)
ResidualWhere ==
    pc = "done" =>
        \A i \in Rendered :
            LET S == all_plans[i].subset
                r == sql_out[i]
                ps == get_predicates_for_subset(all_predicates, predicate_tables, S)
                NotAfterOn(p) == p \notin OnTexts(r)
            IN  Cardinality(S) >= 2 =>
                    /\ r.where = ps.selections \o SelectSeq(ps.joins, NotAfterOn)
                                     \o ps.complex
                    /\ \A p \in ClassifierTexts(S) :
                           p \in OnTexts(r) \/ p \in Range(r.where)
                    /\ \A p \in Range(ps.joins) :
                           ~(p \in OnTexts(r) /\ p \in Range(r.where))

(* a query with a selection first in WHERE, one join text taken by an ON    *)
(* and another join text left in WHERE                                      *)
ResidualWhereReached ==
    /\ pc = "done"
    /\ \E i \in Rendered :
           LET r == sql_out[i]
               ps == get_predicates_for_subset(all_predicates, predicate_tables,
                                               all_plans[i].subset)
           IN  /\ Len(r.where) = 2
               /\ r.where[1].kind = "sel"
               /\ r.where[2].kind = "join"
               /\ Range(ps.joins) \cap OnTexts(r) # {}

-----------------------------------------------------------------------------
(* Vocabulary of a closure call: the stored details by position *)
RECURSIVE CountDetails(_, _)
CountDetails(jd, n) ==
    IF n = 0 THEN 0 ELSE Len(jd[n].details) + CountDetails(jd, n - 1)

Positions(jd) ==
    UNION {{<<i, a>> : a \in 1..Len(jd[i].details)} : i \in 1..Len(jd)}

DetailAt(jd, p) == jd[p[1]].details[p[2]]

SameJoin(d, e) ==
    \/ /\ d.t1 = e.t1 /\ d.t1_col = e.t1_col
       /\ d.t2 = e.t2 /\ d.t2_col = e.t2_col
    \/ /\ d.t1 = e.t2 /\ d.t1_col = e.t2_col
       /\ d.t2 = e.t1 /\ d.t2_col = e.t1_col

ClosureCall ==
    \/ pc = "closure" /\ pc' = "classes"
    \/ pc = "classes" /\ pc' = "closed_twice"

AddedPositions ==
    {p \in Positions(join_details') :
        \/ p[1] > Len(join_details)
        \/ p[2] > Len(join_details[p[1]].details)}

(* C26: a call of compute_transitive_closure runs at most max_iterations    *)
(* passes and stops at the first pass that adds nothing; every stored       *)
(* detail keeps its edge and its place; every detail the call adds is       *)
(* derived and differs, also with its sides swapped, from every other       *)
(* stored detail; the value returned is the number of details added.        *)
ClosureEffect ==
    [][ClosureCall =>
         LET old == join_details
             new == join_details'
             r == compute_transitive_closure(old)
         IN  /\ r.passes \in 1..max_iterations
             /\ \A k \in 1..(r.passes - 1) :
                    ClosureLoop(old, 0, k, 0).added > ClosureLoop(old, 0, k - 1, 0).added
             /\ r.passes < max_iterations
                    => ClosurePass(new, Len(new), 1, 1, 1, 1, 0).added = 0
             /\ Len(new) >= Len(old)
             /\ \A i \in 1..Len(old) :
                    /\ new[i].key = old[i].key
                    /\ Len(new[i].details) >= Len(old[i].details)
                    /\ SubSeq(new[i].details, 1, Len(old[i].details)) = old[i].details
             /\ \A p \in AddedPositions :
                    /\ ~DetailAt(new, p).is_original
                    /\ \A q \in Positions(new) \ {p} :
                           ~SameJoin(DetailAt(new, p), DetailAt(new, q))
             /\ closure_ret' = CountDetails(new, Len(new)) - CountDetails(old, Len(old))
       ]_vars

ClosureEffectReached ==
    /\ pc = "classes"
    /\ closure_ret >= 2
    /\ \E i \in 1..Len(join_details) :
           \E a \in 1..Len(join_details[i].details) :
               /\ join_details[i].details[a].is_original
               /\ a < Len(join_details[i].details)

-----------------------------------------------------------------------------
(* the relations of S whose removal leaves relations connected by shared classes *)
Removable(S) == {r \in S : ConnectedBy(S \ {r}, ShareClass)}

Smallest(R) == CHOOSE r \in R : \A s \in R : s = r \/ AliasLess(r, s)

(* C27: on return of enumerate_subsets, every plan of two or more relations *)
(* has left = {r} and right = subset \ {r}, where r is the smallest relation *)
(* of the subset whose removal leaves the others connected.                 *)
SingletonLeft ==
    EnumerationReturned =>
        \A i \in PlanIndexes :
            LET plan == all_plans[i]
            IN  Cardinality(plan.subset) > 1 =>
                    /\ Removable(plan.subset) # {}
                    /\ plan.left = {Smallest(Removable(plan.subset))}
                    /\ plan.right = plan.subset \ plan.left

SingletonLeftReached ==
    /\ EnumerationReturned
    /\ \E i \in PlanIndexes :
           /\ all_plans[i].subset = {"A", "B", "C"}
           /\ all_plans[i].left = {"B"}
    /\ \E i \in PlanIndexes :
           /\ all_plans[i].subset = {"A", "B"}
           /\ all_plans[i].left = {"A"}
           /\ all_plans[i].right = {"B"}

-----------------------------------------------------------------------------
RECURSIVE SumCounts(_, _)
SumCounts(c, n) == IF n = 0 THEN 0 ELSE c[n] + SumCounts(c, n - 1)

Enumerating == pc = "enumerate_level" \/ EnumerationReturned

(* C28: at every point of an enumeration dp_table holds exactly the sorted  *)
(* relation lists of the subsets in all_plans and no subset is in all_plans *)
(* twice; on return counts[k] is the number of plans of k relations for     *)
(* every level that was run, and the counts add up to the number of plans.  *)
DpTableBookkeeping ==
    Enumerating =>
        /\ dp_table = {SortedList(all_plans[i].subset) : i \in PlanIndexes}
        /\ \A i, j \in PlanIndexes :
               all_plans[i].subset = all_plans[j].subset => i = j
        /\ EnumerationReturned =>
               /\ DOMAIN counts = 1..max_level
               /\ \A k \in 1..max_level : counts[k] = Cardinality(PlansOfSize(k))
               /\ SumCounts(counts, max_level) = Len(all_plans)

DpTableBookkeepingReached ==
    /\ EnumerationReturned
    /\ max_level = 3
    /\ counts[1] = 3
    /\ counts[2] = 2
    /\ counts[3] = 1
    /\ Cardinality(dp_table) = 6

-----------------------------------------------------------------------------
(* What an enumerator that has never been called returns for a relation     *)
(* list and a cap: the levels and their candidates in order, from an empty  *)
(* dp_table, an empty plan list and an empty count map                      *)
RECURSIVE FreshRun(_, _, _, _, _, _)
FreshRun(ecs, T, K, level, index, st) ==
    IF level > K THEN [dp_table |-> st.dp, all_plans |-> st.plans, counts |-> st.counts]
    ELSE LET cands == LevelCandidates(T, level)
         IN  IF index > Len(cands)
             THEN FreshRun(ecs, T, K, level + 1, 1,
                      [st EXCEPT !.added = 0,
                                 !.counts = [k \in DOMAIN st.counts \cup {level} |->
                                                IF k = level THEN st.added ELSE st.counts[k]]])
             ELSE LET subset == Range(cands[index])
                      connected == is_connected(ecs, cands[index])
                      decomp == IF connected /\ level # 1
                                THEN find_valid_decomposition(ecs, st.dp, subset)
                                ELSE None
                      add == connected /\ (level = 1 \/ decomp # None)
                  IN  FreshRun(ecs, T, K, level, index + 1,
                          IF add
                          THEN [st EXCEPT !.added = @ + 1,
                                          !.dp = @ \cup {canonical_key(subset)},
                                          !.plans = Append(@,
                                              IF level = 1 THEN Plan(subset, NoSet, NoSet)
                                              ELSE Plan(subset, decomp.left, decomp.right))]
                          ELSE st)

FreshResult(ecs, from, K) ==
    FreshRun(ecs, SortedList(Range(from)), Capped(K, Len(from)), 1, 1,
             [dp |-> {}, plans |-> <<>>, counts |-> <<>>, added |-> 0])

(* C29: whatever the enumerator was called with before, a call of           *)
(* enumerate_subsets returns what an enumerator never called before returns *)
(* for the same relation list and cap, and the plan list and the count map  *)
(* of every result returned earlier still have the contents they were       *)
(* returned with.                                                           *)
ReuseIsFresh ==
    /\ EnumerationReturned =>
           \A from \in Orderings(query.from) :
               [dp_table |-> dp_table, all_plans |-> all_plans, counts |-> counts]
                   = FreshResult(equivalence_classes, from, max_level_arg)
    /\ \A h \in 1..Len(held) :
           Deref(held[h].ref) = [all_plans |-> held[h].all_plans, counts |-> held[h].counts]

ReuseIsFreshReached ==
    /\ EnumerationReturned
    /\ Len(held) >= 1
    /\ Len(held[1].all_plans) = 6
    /\ Len(all_plans) = 3
    /\ DOMAIN counts = {1}

-----------------------------------------------------------------------------
QueryTaken == pc = "main_loop" /\ query_id' = query_id + 1

(* C30: a turn of the driver's loop appends to the output all the rows of   *)
(* its query when process_query returned and nothing when it raised, also   *)
(* when rows had been built before the raise; no step after the output was  *)
(* opened removes or alters a row written before.                           *)
RowsOnlyOnSuccess ==
    [][/\ QueryTaken =>
             LET q == queries[query_id']
             IN  /\ q.fails => csvfile' = csvfile
                 /\ ~q.fails =>
                        /\ Len(csvfile') = Len(csvfile) + q.rows
                        /\ \A k \in 1..q.rows :
                               csvfile'[Len(csvfile) + k] = [query_id |-> query_id', row |-> k]
       /\ pc # "main" =>
             /\ Len(csvfile') >= Len(csvfile)
             /\ SubSeq(csvfile', 1, Len(csvfile)) = csvfile
      ]_vars

RowsOnlyOnSuccessReached ==
    /\ query_id = 2
    /\ Len(queries) >= 2
    /\ queries[1] = [fails |-> FALSE, rows |-> 1]
    /\ queries[2] = [fails |-> TRUE, rows |-> 1]
    /\ csvfile = <<Header, [query_id |-> 1, row |-> 1]>>

====
